---------------------------- MODULE Spec2Model ----------------------------
(***************************************************************************)
(* S1Interval (src/src/s2/s1interval.cc): a closed interval of angles on   *)
(* the unit circle, stored as a pair (lo, hi) of doubles in [-Pi, Pi].     *)
(*                                                                         *)
(* Doubles are modelled as the points of a uniform grid: the integers, one *)
(* unit being the spacing of the doubles next to Pi (2 * DBL_EPSILON), and *)
(* Pi being M_PI units.  Sums and differences of grid values are grid      *)
(* values and are exact.  The one operation of the file whose exact result *)
(* can fall between two grid values is the midpoint 0.5 * (lo + hi) of     *)
(* GetCenter; it is rounded to the nearest grid value, ties to even, as    *)
(* the double addition does.                                               *)
(*                                                                         *)
(* The state is a pair of interval values x, y on which the operations of  *)
(* the class are applied.                                                  *)
(***************************************************************************)
EXTENDS Integers, FiniteSets

\* Grid resolution: the number of grid steps from 0 to Pi.
GridN == 4

\* 2 * DBL_EPSILON, the grid step.
TWO_DBL_EPSILON == 1

M_PI == GridN

\* The doubles an endpoint, a point argument or a margin may take.
Angles == -M_PI..M_PI

Max(u, v) == IF u >= v THEN u ELSE v
Min(u, v) == IF u <= v THEN u ELSE v
Abs(u) == IF u >= 0 THEN u ELSE -u

---------------------------------------------------------------------------
(* Inline members of the class (declared in s2/s1interval.h).              *)

\* The trusted constructor S1Interval(lo, hi, ARGS_CHECKED): no validation.
Checked(l, h) == [lo |-> l, hi |-> h]

Empty == Checked(M_PI, -M_PI)
Full == Checked(-M_PI, M_PI)

is_valid(i) ==
    /\ Abs(i.lo) <= M_PI
    /\ Abs(i.hi) <= M_PI
    /\ ~(i.lo = -M_PI /\ i.hi # M_PI)
    /\ ~(i.hi = -M_PI /\ i.lo # M_PI)

is_full(i) == i.hi - i.lo = 2 * M_PI
is_empty(i) == i.lo - i.hi = 2 * M_PI
is_inverted(i) == i.lo > i.hi

\* The validated constructor S1Interval(lo, hi): canonicalizes -Pi.
S1Interval(l, h) ==
    LET l1 == IF l = -M_PI /\ h # M_PI THEN M_PI ELSE l
        h1 == IF h = -M_PI /\ l1 # M_PI THEN M_PI ELSE h
    IN  Checked(l1, h1)

ValidIntervals == { i \in [lo : Angles, hi : Angles] : is_valid(i) }

---------------------------------------------------------------------------
(* s1interval.cc                                                           *)

\* std::remainder(v, m): v - n * m with n the integer nearest to v / m,
\* ties going to the even n.
Remainder(v, m) ==
    LET r == v % m
        q == (v - r) \div m
    IN  IF 2 * r < m THEN r
        ELSE IF 2 * r > m THEN r - m
        ELSE IF q % 2 = 0 THEN r ELSE r - m

Canon(p) == IF p = -M_PI THEN M_PI ELSE p

FromPoint(p) == Checked(Canon(p), Canon(p))

\* 0.5 * s for a sum s of two grid values: exact when s is even, else the
\* nearer grid value, ties to even.
HalfOf(s) ==
    IF s % 2 = 0 THEN s \div 2
    ELSE LET f == (s - 1) \div 2
         IN  IF f % 2 = 0 THEN f ELSE f + 1

GetCenter(i) ==
    LET center == HalfOf(i.lo + i.hi)
    IN  IF ~is_inverted(i) THEN center
        ELSE IF center <= 0 THEN center + M_PI ELSE center - M_PI

GetLength(i) ==
    LET length == i.hi - i.lo
    IN  IF length >= 0 THEN length
        ELSE IF length + 2 * M_PI > 0 THEN length + 2 * M_PI ELSE -1

\* Mutant: the singleton case is left out.
ComplementNoSingleton(i) == Checked(i.hi, i.lo)

Complement(i) ==
    IF i.lo = i.hi THEN Full ELSE Checked(i.hi, i.lo)

GetComplementCenter(i) ==
    IF i.lo # i.hi THEN GetCenter(Complement(i))
    ELSE IF i.hi <= 0 THEN i.hi + M_PI ELSE i.hi - M_PI

FastContains(i, p) ==
    IF is_inverted(i)
    THEN (p >= i.lo \/ p <= i.hi) /\ ~is_empty(i)
    ELSE p >= i.lo /\ p <= i.hi

Contains(i, p) == FastContains(i, Canon(p))

InteriorContains(i, p) ==
    LET c == Canon(p)
    IN  IF is_inverted(i)
        THEN c > i.lo \/ c < i.hi
        ELSE (c > i.lo /\ c < i.hi) \/ is_full(i)

ContainsInterval(i, y0) ==
    IF is_inverted(i)
    THEN IF is_inverted(y0)
         THEN y0.lo >= i.lo /\ y0.hi <= i.hi
         ELSE (y0.lo >= i.lo \/ y0.hi <= i.hi) /\ ~is_empty(i)
    ELSE IF is_inverted(y0)
         THEN is_full(i) \/ is_empty(y0)
         ELSE y0.lo >= i.lo /\ y0.hi <= i.hi

Intersects(i, y0) ==
    IF is_empty(i) \/ is_empty(y0) THEN FALSE
    ELSE IF is_inverted(i)
         THEN is_inverted(y0) \/ y0.lo <= i.hi \/ y0.hi >= i.lo
         ELSE IF is_inverted(y0)
              THEN y0.lo <= i.hi \/ y0.hi >= i.lo
              ELSE y0.lo <= i.hi /\ y0.hi >= i.lo

\* Mutant: closed comparisons, as in Intersects.
InteriorIntersectsClosed(i, y0) ==
    IF is_empty(i) \/ is_empty(y0) \/ i.lo = i.hi THEN FALSE
    ELSE Intersects(i, y0)

InteriorIntersects(i, y0) ==
    IF is_empty(i) \/ is_empty(y0) \/ i.lo = i.hi THEN FALSE
    ELSE IF is_inverted(i)
         THEN is_inverted(y0) \/ y0.lo < i.hi \/ y0.hi > i.lo
         ELSE IF is_inverted(y0)
              THEN y0.lo < i.hi \/ y0.hi > i.lo
              ELSE (y0.lo < i.hi /\ y0.hi > i.lo) \/ is_full(i)

PositiveDistance(u, v) ==
    LET d == v - u
    IN  IF d >= 0 THEN d ELSE (v + M_PI) - (u - M_PI)

\* The two candidates of the last branch of GetDirectedHausdorffDistance.
HausdorffCandidates(i, y0) ==
    LET c == GetComplementCenter(y0)
    IN  [hi_hi |-> IF Contains(S1Interval(y0.hi, c), i.hi)
                   THEN PositiveDistance(y0.hi, i.hi) ELSE 0,
         lo_lo |-> IF Contains(S1Interval(c, y0.lo), i.lo)
                   THEN PositiveDistance(i.lo, y0.lo) ELSE 0]

\* Whether the last branch (the one holding the S2_DCHECK) is reached.
HausdorffLastBranch(i, y0) ==
    /\ ~ContainsInterval(y0, i)
    /\ ~is_empty(y0)
    /\ ~Contains(i, GetComplementCenter(y0))

GetDirectedHausdorffDistance(i, y0) ==
    IF ContainsInterval(y0, i) THEN 0
    ELSE IF is_empty(y0) THEN M_PI
    ELSE LET c == GetComplementCenter(y0)
         IN  IF Contains(i, c) THEN PositiveDistance(y0.hi, c)
             ELSE LET k == HausdorffCandidates(i, y0)
                  IN  Max(k.hi_hi, k.lo_lo)

\* S2_DCHECK(hi_hi > 0 || lo_lo > 0): TRUE unless the assertion fails.
HausdorffDCheck(i, y0) ==
    HausdorffLastBranch(i, y0) =>
        LET k == HausdorffCandidates(i, y0)
        IN  k.hi_hi > 0 \/ k.lo_lo > 0

\* Mutant: an empty interval takes lo from the point as given and only hi
\* from the canonicalized point.
AddPointLateCanon(i, p0) ==
    LET p == Canon(p0)
    IN  IF FastContains(i, p) THEN i
        ELSE IF is_empty(i) THEN Checked(p0, p)
        ELSE LET dlo == PositiveDistance(p, i.lo)
                 dhi == PositiveDistance(i.hi, p)
             IN  IF dlo < dhi THEN Checked(p, i.hi) ELSE Checked(i.lo, p)

AddPoint(i, p0) ==
    LET p == Canon(p0)
    IN  IF FastContains(i, p) THEN i
        ELSE IF is_empty(i) THEN Checked(p, p)
        ELSE LET dlo == PositiveDistance(p, i.lo)
                 dhi == PositiveDistance(i.hi, p)
             IN  IF dlo < dhi THEN Checked(p, i.hi) ELSE Checked(i.lo, p)

\* Mutant: the points are not canonicalized.
FromPointPairNoCanon(p1, p2) ==
    IF PositiveDistance(p1, p2) <= M_PI
    THEN Checked(p1, p2) ELSE Checked(p2, p1)

FromPointPair(p01, p02) ==
    LET p1 == Canon(p01)
        p2 == Canon(p02)
    IN  IF PositiveDistance(p1, p2) <= M_PI
        THEN Checked(p1, p2) ELSE Checked(p2, p1)

Expanded(i, margin) ==
    LET result == S1Interval(Remainder(i.lo - margin, 2 * M_PI),
                             Remainder(i.hi + margin, 2 * M_PI))
        fixed == IF result.lo <= -M_PI
                 THEN Checked(M_PI, result.hi) ELSE result
    IN  IF margin >= 0
        THEN IF is_empty(i) THEN i
             ELSE IF GetLength(i) + 2 * margin + TWO_DBL_EPSILON >= 2 * M_PI
                  THEN Full ELSE fixed
        ELSE IF is_full(i) THEN i
             ELSE IF GetLength(i) + 2 * margin - TWO_DBL_EPSILON <= 0
                  THEN Empty ELSE fixed

\* Mutant: the comparison of the two gaps is reversed.
UnionLongerBridge(i, y0) ==
    IF is_empty(y0) THEN i
    ELSE IF FastContains(i, y0.lo)
    THEN IF FastContains(i, y0.hi)
         THEN IF ContainsInterval(i, y0) THEN i ELSE Full
         ELSE Checked(i.lo, y0.hi)
    ELSE IF FastContains(i, y0.hi) THEN Checked(y0.lo, i.hi)
    ELSE IF is_empty(i) \/ FastContains(y0, i.lo) THEN y0
    ELSE LET dlo == PositiveDistance(y0.hi, i.lo)
             dhi == PositiveDistance(i.hi, y0.lo)
         IN  IF dlo > dhi THEN Checked(y0.lo, i.hi)
             ELSE Checked(i.lo, y0.hi)

\* Mutant: equally long gaps are bridged from the other side.
UnionTieLo(i, y0) ==
    IF is_empty(y0) THEN i
    ELSE IF FastContains(i, y0.lo)
    THEN IF FastContains(i, y0.hi)
         THEN IF ContainsInterval(i, y0) THEN i ELSE Full
         ELSE Checked(i.lo, y0.hi)
    ELSE IF FastContains(i, y0.hi) THEN Checked(y0.lo, i.hi)
    ELSE IF is_empty(i) \/ FastContains(y0, i.lo) THEN y0
    ELSE LET dlo == PositiveDistance(y0.hi, i.lo)
             dhi == PositiveDistance(i.hi, y0.lo)
         IN  IF dlo <= dhi THEN Checked(y0.lo, i.hi)
             ELSE Checked(i.lo, y0.hi)

Union(i, y0) ==
    IF is_empty(y0) THEN i
    ELSE IF FastContains(i, y0.lo)
    THEN IF FastContains(i, y0.hi)
         THEN IF ContainsInterval(i, y0) THEN i ELSE Full
         ELSE Checked(i.lo, y0.hi)
    ELSE IF FastContains(i, y0.hi) THEN Checked(y0.lo, i.hi)
    ELSE IF is_empty(i) \/ FastContains(y0, i.lo) THEN y0
    ELSE LET dlo == PositiveDistance(y0.hi, i.lo)
             dhi == PositiveDistance(i.hi, y0.lo)
         IN  IF dlo < dhi THEN Checked(y0.lo, i.hi)
             ELSE Checked(i.lo, y0.hi)

\* Mutant: the longer of the two operands is returned.
IntersectionLonger(i, y0) ==
    IF is_empty(y0) THEN Empty
    ELSE IF FastContains(i, y0.lo)
    THEN IF FastContains(i, y0.hi)
         THEN IF GetLength(y0) > GetLength(i) THEN y0 ELSE i
         ELSE Checked(y0.lo, i.hi)
    ELSE IF FastContains(i, y0.hi) THEN Checked(i.lo, y0.hi)
    ELSE IF FastContains(y0, i.lo) THEN i
    ELSE Empty

\* Mutant: the case of the argument containing the receiver is left out.
IntersectionNoContainCheck(i, y0) ==
    IF is_empty(y0) THEN Empty
    ELSE IF FastContains(i, y0.lo)
    THEN IF FastContains(i, y0.hi)
         THEN IF GetLength(y0) < GetLength(i) THEN y0 ELSE i
         ELSE Checked(y0.lo, i.hi)
    ELSE IF FastContains(i, y0.hi) THEN Checked(i.lo, y0.hi)
    ELSE Empty

Intersection(i, y0) ==
    IF is_empty(y0) THEN Empty
    ELSE IF FastContains(i, y0.lo)
    THEN IF FastContains(i, y0.hi)
         THEN IF GetLength(y0) < GetLength(i) THEN y0 ELSE i
         ELSE Checked(y0.lo, i.hi)
    ELSE IF FastContains(i, y0.hi) THEN Checked(i.lo, y0.hi)
    ELSE IF FastContains(y0, i.lo) THEN i
    ELSE Empty

\* Whether the last branch (the one holding the S2_DCHECK) is reached.
IntersectionLastBranch(i, y0) ==
    /\ ~is_empty(y0)
    /\ ~FastContains(i, y0.lo)
    /\ ~FastContains(i, y0.hi)
    /\ ~FastContains(y0, i.lo)

\* S2_DCHECK(!Intersects(y)): TRUE unless the assertion fails.
IntersectionDCheck(i, y0) ==
    IntersectionLastBranch(i, y0) => ~Intersects(i, y0)

---------------------------------------------------------------------------
(* The state machine: two interval values and the last operation applied.  *)
(* a and b are the operands the last operation read (for a factory, the    *)
(* value it left in y); dist, flag and dcheck hold the last operation's    *)
(* scalar result and the outcome of its S2_DCHECK, and are reset by an     *)
(* operation that produces none.                                           *)

VARIABLES x, y, op, a, b, dist, flag, dcheck

vars == <<x, y, op, a, b, dist, flag, dcheck>>

Init ==
    /\ x \in ValidIntervals
    /\ y \in ValidIntervals
    /\ op = "init"
    /\ a = x
    /\ b = y
    /\ dist = 0
    /\ flag = FALSE
    /\ dcheck = TRUE

\* y = S1Interval::FromPoint(p)
DoFromPoint ==
    \E p \in Angles :
        /\ y' = FromPoint(p)
        /\ op' = "FromPoint"
        /\ a' = x /\ b' = y'
        /\ dist' = 0 /\ flag' = FALSE /\ dcheck' = TRUE
        /\ UNCHANGED x

\* y = S1Interval::FromPointPair(p1, p2)
DoFromPointPair ==
    \E p1 \in Angles, p2 \in Angles :
        /\ y' = FromPointPair(p1, p2)
        /\ op' = "FromPointPair"
        /\ a' = x /\ b' = y'
        /\ dist' = 0 /\ flag' = FALSE /\ dcheck' = TRUE
        /\ UNCHANGED x

\* x = x.Complement()
DoComplement ==
    /\ x' = Complement(x)
    /\ op' = "Complement"
    /\ a' = x /\ b' = y
    /\ dist' = 0 /\ flag' = FALSE /\ dcheck' = TRUE
    /\ UNCHANGED y

\* x = x.Union(y)
DoUnion ==
    /\ x' = Union(x, y)
    /\ op' = "Union"
    /\ a' = x /\ b' = y
    /\ dist' = 0 /\ flag' = FALSE /\ dcheck' = TRUE
    /\ UNCHANGED y

\* x = x.Intersection(y)
DoIntersection ==
    /\ x' = Intersection(x, y)
    /\ dcheck' = IntersectionDCheck(x, y)
    /\ op' = "Intersection"
    /\ a' = x /\ b' = y
    /\ dist' = 0 /\ flag' = FALSE
    /\ UNCHANGED y

\* x.AddPoint(p)
DoAddPoint ==
    \E p \in Angles :
        /\ x' = AddPoint(x, p)
        /\ op' = "AddPoint"
        /\ a' = x /\ b' = y
        /\ dist' = 0 /\ flag' = FALSE /\ dcheck' = TRUE
        /\ UNCHANGED y

\* x = x.Expanded(margin)
DoExpanded ==
    \E margin \in Angles :
        /\ x' = Expanded(x, margin)
        /\ op' = "Expanded"
        /\ a' = x /\ b' = y
        /\ dist' = 0 /\ flag' = FALSE /\ dcheck' = TRUE
        /\ UNCHANGED y

\* dist = x.GetDirectedHausdorffDistance(y)
DoHausdorff ==
    /\ dist' = GetDirectedHausdorffDistance(x, y)
    /\ dcheck' = HausdorffDCheck(x, y)
    /\ op' = "GetDirectedHausdorffDistance"
    /\ a' = x /\ b' = y
    /\ flag' = FALSE
    /\ UNCHANGED <<x, y>>

\* flag = x.InteriorIntersects(y)
DoInteriorIntersects ==
    /\ flag' = InteriorIntersects(x, y)
    /\ op' = "InteriorIntersects"
    /\ a' = x /\ b' = y
    /\ dist' = 0 /\ dcheck' = TRUE
    /\ UNCHANGED <<x, y>>

Next ==
    \/ DoFromPoint
    \/ DoFromPointPair
    \/ DoComplement
    \/ DoUnion
    \/ DoIntersection
    \/ DoAddPoint
    \/ DoExpanded
    \/ DoHausdorff
    \/ DoInteriorIntersects

Spec == Init /\ [][Next]_vars

TypeOK ==
    /\ x \in [lo : Int, hi : Int]
    /\ y \in [lo : Int, hi : Int]
    /\ dist \in Int
    /\ flag \in BOOLEAN
    /\ dcheck \in BOOLEAN

---------------------------------------------------------------------------
(* Reference semantics: an interval as a set of points of the circle.      *)
(* Points are taken at half the grid step, in half units, so that every    *)
(* midpoint of two grid values is a point: an arc between grid values has  *)
(* an interior point, and a maximum of distances to such arcs is reached,  *)
(* among these points.                                                     *)

SetMax(S) == CHOOSE u \in S : \A v \in S : v <= u
SetMin(S) == CHOOSE u \in S : \A v \in S : u <= v

\* The circle in half units, Pi being the representative of the seam.
Circle2 == (1 - 2 * M_PI)..(2 * M_PI)

\* The points of the closed arc of i.
Pts2(i) ==
    { p \in Circle2 :
        /\ ~is_empty(i)
        /\ IF i.lo <= i.hi
           THEN is_full(i) \/ (2 * i.lo <= p /\ p <= 2 * i.hi)
           ELSE p >= 2 * i.lo \/ p <= 2 * i.hi }

\* The points of the open interior of the arc of i.
InteriorPts2(i) ==
    { p \in Circle2 :
        /\ ~is_empty(i)
        /\ IF i.lo <= i.hi
           THEN is_full(i) \/ (2 * i.lo < p /\ p < 2 * i.hi)
           ELSE p > 2 * i.lo \/ p < 2 * i.hi }

\* The shorter of the two arc lengths between two points, in half units.
CircDist2(u, v) == Min(Abs(u - v), 4 * M_PI - Abs(u - v))

\* max over the points of i of the min distance to a point of j, in half
\* units.
RefHausdorff2(i, j) ==
    SetMax({ SetMin({ CircDist2(p, q) : q \in Pts2(j) }) : p \in Pts2(i) })

IsSingleton(i) == i.lo = i.hi

\* Non-empty disjoint operands whose two gaps are equally long.
UnionTie(i, j) ==
    /\ ~is_empty(i) /\ ~is_empty(j)
    /\ ~Intersects(i, j)
    /\ PositiveDistance(j.hi, i.lo) = PositiveDistance(i.hi, j.lo)

\* Distinct operands of equal length, each holding both endpoints of the
\* other.
IntersectionTie(i, j) ==
    /\ i # j
    /\ GetLength(i) = GetLength(j)
    /\ FastContains(i, j.lo) /\ FastContains(i, j.hi)
    /\ FastContains(j, i.lo) /\ FastContains(j, i.hi)

---------------------------------------------------------------------------
(* Properties.                                                             *)

\* C1: AddPoint never turns a non-full interval (empty, singleton, normal
\* or inverted) into the Full interval, whatever the point in [-Pi, Pi].
C1_AddPointNeverFull ==
    (op = "AddPoint" /\ ~is_full(a)) => ~is_full(x)

C1_Witness ==
    /\ op = "AddPoint"
    /\ ~is_full(a) /\ ~is_empty(a)
    /\ x # a
    /\ GetLength(x) > M_PI

\* C2: for non-empty X and Y, GetDirectedHausdorffDistance(X, Y) is the
\* maximum over the points of X of the minimum circular distance to a
\* point of Y (both sides in half units).
C2_HausdorffIsMaxMin ==
    (op = "GetDirectedHausdorffDistance" /\ ~is_empty(a) /\ ~is_empty(b))
        => 2 * dist = RefHausdorff2(a, b)

\* C3: the directed Hausdorff distance is 0 exactly when Y contains X, Pi
\* when Y is empty and X is not, strictly positive otherwise, and the
\* S2_DCHECK of the last branch never fails.
C3_HausdorffZeroPiPositive ==
    op = "GetDirectedHausdorffDistance" =>
        /\ (dist = 0) <=> ContainsInterval(b, a)
        /\ (is_empty(b) /\ ~is_empty(a)) => dist = M_PI
        /\ dist >= 0
        /\ dcheck

\* C4: the union contains both operands, equals the receiver when the
\* argument is empty, is no longer than any interval containing both, and
\* for non-empty disjoint operands is the shorter of the two bridging arcs.
C4_UnionSmallestCover ==
    op = "Union" =>
        /\ ContainsInterval(x, a)
        /\ ContainsInterval(x, b)
        /\ is_empty(b) => x = a
        /\ \A z \in ValidIntervals :
              (ContainsInterval(z, a) /\ ContainsInterval(z, b))
                  => GetLength(x) <= GetLength(z)
        /\ (~is_empty(a) /\ ~is_empty(b) /\ ~Intersects(a, b)) =>
              /\ x \in { Checked(a.lo, b.hi), Checked(b.lo, a.hi) }
              /\ GetLength(x) <= GetLength(Checked(a.lo, b.hi))
              /\ GetLength(x) <= GetLength(Checked(b.lo, a.hi))

C4_Witness ==
    /\ op = "Union"
    /\ ~is_empty(a) /\ ~is_empty(b) /\ ~Intersects(a, b)
    /\ x = Checked(b.lo, a.hi)
    /\ GetLength(x) < GetLength(Checked(a.lo, b.hi))

\* C5: the union of any interval with its complement is Full.
C5_UnionWithComplementFull ==
    (op = "Union" /\ b = Complement(a)) => is_full(x)

C5_Witness ==
    /\ op = "Union"
    /\ b = Complement(a)
    /\ is_inverted(a) /\ ~is_empty(a)
    /\ is_full(x)

\* C6: for non-empty, non-full operands the intersection is no longer than
\* either operand (an empty result having length -1).
C6_IntersectionNoLonger ==
    (/\ op = "Intersection"
     /\ ~is_empty(a) /\ ~is_full(a)
     /\ ~is_empty(b) /\ ~is_full(b))
        => GetLength(x) <= Min(GetLength(a), GetLength(b))

C6_Witness ==
    /\ op = "Intersection"
    /\ ~is_empty(a) /\ ~is_full(a)
    /\ ~is_empty(b) /\ ~is_full(b)
    /\ FastContains(a, b.lo) /\ FastContains(a, b.hi)
    /\ ~ContainsInterval(a, b)
    /\ GetLength(x) = Min(GetLength(a), GetLength(b))

\* C7 as stated: InteriorIntersects is true exactly when the two open
\* interiors share a point, is false when either operand is a singleton,
\* and is symmetric.
C7_InteriorIntersectsOpenOpen ==
    op = "InteriorIntersects" =>
        /\ flag <=> (InteriorPts2(a) \cap InteriorPts2(b) # {})
        /\ (IsSingleton(a) \/ IsSingleton(b)) => ~flag
        /\ flag = InteriorIntersects(b, a)

\* C7 amended: InteriorIntersects is true exactly when the open interior
\* of the receiver shares a point with the (closed) argument; it is false
\* when the receiver is a singleton, and symmetric when neither operand is
\* a singleton.
C7_InteriorIntersectsOpenClosed ==
    op = "InteriorIntersects" =>
        /\ flag <=> (InteriorPts2(a) \cap Pts2(b) # {})
        /\ IsSingleton(a) => ~flag
        /\ (~IsSingleton(a) /\ ~IsSingleton(b))
              => flag = InteriorIntersects(b, a)

C7_Witness ==
    /\ op = "InteriorIntersects"
    /\ IsSingleton(b) /\ ~IsSingleton(a) /\ ~is_full(a)
    /\ flag
    /\ ~InteriorIntersects(b, a)

\* C8: every operation leaves only valid intervals behind.
C8_AllValid ==
    /\ is_valid(x)
    /\ is_valid(y)

C8_Witness ==
    /\ op = "Expanded"
    /\ ~is_inverted(a)
    /\ is_inverted(x) /\ ~is_empty(x)
    /\ x.lo = M_PI

\* C9: the intersection is Empty exactly when the operands do not
\* intersect, and the S2_DCHECK of the last branch never fails.
C9_IntersectionAgreesWithIntersects ==
    op = "Intersection" =>
        /\ is_empty(x) <=> ~Intersects(a, b)
        /\ dcheck

C9_Witness ==
    /\ op = "Intersection"
    /\ IntersectionLastBranch(a, b)
    /\ ~is_empty(a)
    /\ is_empty(x)

===========================================================================
